---------------------------- MODULE Spec2Model ----------------------------
(***************************************************************************)
(* Model of hsgwa/trace_analysis:                                          *)
(*   record/lttng/processor.py   Ros2Handler, the event processor          *)
(*   application.py              Application, the path engine's front      *)
(*   architecture/architecture.py Architecture                             *)
(* Ros2DataModel, the EventHandler base class, the architecture importers, *)
(* the latency composer, CallbackPathSercher, Node, Path and Util are used *)
(* by these files but are not part of them; they are modelled from the     *)
(* specification of the system.                                            *)
(***************************************************************************)
EXTENDS Integers, Sequences, FiniteSets, TLC

VARIABLES
    pc,         \* position of the component under analysis
    trace,      \* the events fed to the processor so far, in input order
    data,       \* Ros2Handler.data: the Ros2DataModel (entity tables, logs)
    callback_instances_buf, \* Ros2Handler._callback_instances
    graph,      \* entities the graph builder kept, and what it reported
    arch,       \* the Architecture: _nodes, _path_aliases, _communications
                \* and, once an import has set it, _variable_passings
    app,        \* the Application built last: its searcher and path table
    napps,      \* how many Applications were built over arch
    call,       \* the running search_paths call: its two callback names
    loop,       \* _set_node_paths: the next pair of callbacks to search
    search,     \* CallbackPathSercher.search in progress
    returned,   \* what the last search_paths call gave its caller
    imp,        \* import_file calls so far: the last one's input and outcome
    samples     \* the latency samples the last compose gave

procVars == <<trace, data, callback_instances_buf, graph>>
appVars == <<arch, app, napps, loop, call, search, returned>>
extVars == <<imp, samples>>
vars == <<pc, trace, data, callback_instances_buf, graph,
          arch, app, napps, loop, call, search, returned, imp, samples>>

(***************************************************************************)
(* Bounds                                                                  *)
(***************************************************************************)
MaxEvents == 4
MaxInitEvents == 3
MaxTime == 3
MaxEdges == 3
MaxApps == 2
NumCallbackObjects == 2
NumHandles == 2
MaxAliases == 2
MaxImports == 2
MaxLinkEvents == 3
MaxEntityEvents == 2

CallbackObjects == 1..NumCallbackObjects
Handles == 1..NumHandles
NodeHandles == {11}
ContextHandles == {51}
SubscriptionPointers == {31}
TimerHandles == {41}
Symbols == {"f"}
TopicNames == {"t"}
NodeNames == {"n"}
IntraValues == {0, 1}

\* An instance's end: <<>> while open, <<timestamp>> once closed.
Open == <<>>

(***************************************************************************)
(* Generic helpers                                                         *)
(***************************************************************************)
Last(s) == s[Len(s)]

Range(s) == {s[i] : i \in DOMAIN s}

SetMax(S) == CHOOSE x \in S : \A y \in S : y <= x

LastTimestamp == IF trace = <<>> THEN 0 ELSE Last(trace).timestamp

\* The processor requires its input in non-decreasing timestamp order.
NextTimestamps == {t \in {LastTimestamp, LastTimestamp + 1} : t <= MaxTime}

(***************************************************************************)
(* Ros2DataModel (data_model.py is not among the sources; from the spec)   *)
(***************************************************************************)
EmptyData ==
    [contexts |-> <<>>,
     nodes |-> <<>>,
     publishers |-> <<>>,
     lifecycle_state_machines |-> <<>>,
     callback_objects |-> <<>>,
     callback_symbols |-> <<>>,
     ros_times |-> <<>>,
     rclcpp_publish_instances |-> <<>>,
     rcl_publish_instances |-> <<>>,
     dds_write_instances |-> <<>>,
     dds_bind_addr_to_stamp |-> <<>>,
     on_data_available_instances |-> <<>>,
     take_type_erased_instances |-> <<>>,
     dispatch_instances |-> <<>>,
     callback_instances |-> <<>>,
     callback_end_instances |-> <<>>]

add_context(d, handle, timestamp, pid, version) ==
    [d EXCEPT !.contexts = Append(@,
        [handle |-> handle, timestamp |-> timestamp,
         pid |-> pid, version |-> version])]

add_node(d, handle, timestamp, name) ==
    [d EXCEPT !.nodes = Append(@,
        [handle |-> handle, timestamp |-> timestamp, name |-> name])]

add_publisher(d, handle, timestamp, node_handle, topic_name) ==
    [d EXCEPT !.publishers = Append(@,
        [handle |-> handle, timestamp |-> timestamp,
         node_handle |-> node_handle, topic_name |-> topic_name])]

add_lifecycle_state_machine(d, handle, node_handle) ==
    [d EXCEPT !.lifecycle_state_machines = Append(@,
        [handle |-> handle, node_handle |-> node_handle])]

\* The link of a callback-object to the handle that owns it.
add_callback_object(d, reference, timestamp, callback_object) ==
    [d EXCEPT !.callback_objects = Append(@,
        [reference |-> reference, timestamp |-> timestamp,
         callback_object |-> callback_object])]

\* The link of a callback-object to its symbol.
add_callback_symbol(d, callback_object, timestamp, symbol) ==
    [d EXCEPT !.callback_symbols = Append(@,
        [callback_object |-> callback_object, timestamp |-> timestamp,
         symbol |-> symbol])]

add_ros_time(d, stamp, rostime) ==
    [d EXCEPT !.ros_times = Append(@, [stamp |-> stamp, rostime |-> rostime])]

add_rclcpp_publish_instance(d, timestamp, publisher_handle, message) ==
    [d EXCEPT !.rclcpp_publish_instances = Append(@,
        [timestamp |-> timestamp, publisher_handle |-> publisher_handle,
         message |-> message])]

add_rcl_publish_instance(d, timestamp, publisher_handle, message) ==
    [d EXCEPT !.rcl_publish_instances = Append(@,
        [timestamp |-> timestamp, publisher_handle |-> publisher_handle,
         message |-> message])]

add_dds_write_instance(d, timestamp, message) ==
    [d EXCEPT !.dds_write_instances = Append(@,
        [timestamp |-> timestamp, message |-> message])]

add_dds_bind_addr_to_stamp(d, timestamp, addr, source_stamp) ==
    [d EXCEPT !.dds_bind_addr_to_stamp = Append(@,
        [timestamp |-> timestamp, addr |-> addr,
         source_stamp |-> source_stamp])]

add_on_data_available_instance(d, timestamp, source_stamp) ==
    [d EXCEPT !.on_data_available_instances = Append(@,
        [timestamp |-> timestamp, source_stamp |-> source_stamp])]

add_take_type_erased_instance(d, timestamp, source_stamp, message) ==
    [d EXCEPT !.take_type_erased_instances = Append(@,
        [timestamp |-> timestamp, source_stamp |-> source_stamp,
         message |-> message])]

add_dispatch_instance(d, timestamp, callback_object, message) ==
    [d EXCEPT !.dispatch_instances = Append(@,
        [timestamp |-> timestamp, callback_object |-> callback_object,
         message |-> message])]

\* A callback instance is created by a start event and left open.
add_callback_start_instance(d, timestamp, callback, is_intra_process) ==
    [d EXCEPT !.callback_instances = Append(@,
        [callback |-> callback, start |-> timestamp,
         is_intra_process |-> is_intra_process])]

\* The end records that closed instance i (the tables are append-only: an
\* instance is closed by a record of the end log that names it).
ClosedBy(d, i) ==
    {k \in DOMAIN d.callback_end_instances :
        d.callback_end_instances[k].closes = i}

OpenInstances(d, callback) ==
    {i \in DOMAIN d.callback_instances :
        /\ d.callback_instances[i].callback = callback
        /\ ClosedBy(d, i) = {}}

\* An instance's end: Open, or <<timestamp>> of the end that closed it.
EndOf(d, i) ==
    IF ClosedBy(d, i) = {} THEN Open
    ELSE <<d.callback_end_instances[CHOOSE k \in ClosedBy(d, i) : TRUE]
              .timestamp>>

\* An end event closes the most recent still-open instance of its
\* callback-object; with none open it matches nothing (closes 0).
add_callback_end_instance(d, timestamp, callback) ==
    [d EXCEPT !.callback_end_instances = Append(@,
        [callback |-> callback, timestamp |-> timestamp,
         closes |-> IF OpenInstances(d, callback) = {} THEN 0
                    ELSE SetMax(OpenInstances(d, callback))])]

(***************************************************************************)
(* Ros2Handler: one operator per handler, applied to the data model        *)
(***************************************************************************)
\* Mutant: no event kind is required.
required_events_none == {}

required_events == {"ros2:rcl_init"}

handle_rcl_init(d, event) ==
    add_context(d, event.context_handle, event.timestamp, event.pid,
                event.version)

\* Mutant: a node table keyed by handle, a re-initialised handle replacing
\* the row recorded before.
handle_rcl_node_init_keyed(d, event) ==
    [d EXCEPT !.nodes =
        Append(SelectSeq(@, LAMBDA r : r.handle # event.node_handle),
               [handle |-> event.node_handle, timestamp |-> event.timestamp,
                name |-> event.node_name])]

handle_rcl_node_init(d, event) ==
    add_node(d, event.node_handle, event.timestamp, event.node_name)

\* Mutant: a publisher table keyed by handle, a re-initialised handle
\* replacing the row recorded before.
handle_rcl_publisher_init_keyed(d, event) ==
    [d EXCEPT !.publishers =
        Append(SelectSeq(@, LAMBDA r : r.handle # event.publisher_handle),
               [handle |-> event.publisher_handle,
                timestamp |-> event.timestamp,
                node_handle |-> event.node_handle,
                topic_name |-> event.topic_name])]

handle_rcl_publisher_init(d, event) ==
    add_publisher(d, event.publisher_handle, event.timestamp,
                  event.node_handle, event.topic_name)

\* The handler reads no timestamp: the state machine is recorded with its
\* handle and node handle only.
handle_rcl_lifecycle_state_machine_init(d, event) ==
    add_lifecycle_state_machine(d, event.state_machine, event.node_handle)

\* Mutant: the callback and the intra-process flag change places.
handle_callback_start_swapped(d, event) ==
    add_callback_start_instance(d, event.timestamp, event.is_intra_process,
                                event.callback)

handle_callback_start(d, event) ==
    add_callback_start_instance(d, event.timestamp, event.callback,
                                event.is_intra_process)

\* Mutant: the timestamp and the callback change places.
handle_callback_end_swapped(d, event) ==
    add_callback_end_instance(d, event.callback, event.timestamp)

handle_callback_end(d, event) ==
    add_callback_end_instance(d, event.timestamp, event.callback)

handle_rclcpp_subscription_callback_added(d, event) ==
    add_callback_object(d, event.subscription, event.timestamp,
                        event.callback)

handle_rclcpp_timer_callback_added(d, event) ==
    add_callback_object(d, event.timer_handle, event.timestamp,
                        event.callback)

\* Mutant: the symbol is recorded only for a callback-object whose link to
\* its handle is known.
handle_rclcpp_callback_register_linked(d, event) ==
    IF \E i \in DOMAIN d.callback_objects :
            d.callback_objects[i].callback_object = event.callback
    THEN add_callback_symbol(d, event.callback, event.timestamp, event.symbol)
    ELSE d

handle_rclcpp_callback_register(d, event) ==
    add_callback_symbol(d, event.callback, event.timestamp, event.symbol)

handle_rclcpp_publish(d, event) ==
    add_rclcpp_publish_instance(d, event.timestamp, event.publisher_handle,
                                event.message)

handle_rcl_publish(d, event) ==
    add_rcl_publish_instance(d, event.timestamp, event.publisher_handle,
                             event.message)

handle_dds_write(d, event) ==
    add_dds_write_instance(d, event.timestamp, event.message)

handle_dds_bind_addr_to_stamp(d, event) ==
    add_dds_bind_addr_to_stamp(d, event.timestamp, event.addr,
                               event.source_stamp)

handle_on_data_available(d, event) ==
    add_on_data_available_instance(d, event.timestamp, event.source_stamp)

handle_take_type_erased(d, event) ==
    add_take_type_erased_instance(d, event.timestamp, event.source_stamp,
                                  event.message)

\* Mutant: the callback-object and the message change places.
handle_dispatch_swapped(d, event) ==
    add_dispatch_instance(d, event.timestamp, event.message, event.callback)

handle_dispatch(d, event) ==
    add_dispatch_instance(d, event.timestamp, event.callback, event.message)

\* Defined in the class, registered for no kind.
handle_ros_time(d, event) == add_ros_time(d, event.timestamp, event.stamp)

\* Mutant: the ros time handler is registered too.
handler_map_with_ros_time ==
    {"ros2:rcl_init", "ros2:rcl_node_init", "ros2:rcl_publisher_init",
     "ros2:rcl_subscription_init", "ros2:rclcpp_subscription_init",
     "ros2:rclcpp_subscription_callback_added", "ros2:rcl_service_init",
     "ros2:rclcpp_service_callback_added", "ros2:rcl_client_init",
     "ros2:rcl_timer_init", "ros2:rclcpp_timer_callback_added",
     "ros2:rclcpp_timer_link_node", "ros2:rclcpp_callback_register",
     "ros2:callback_start", "ros2:callback_end",
     "ros2:rcl_lifecycle_state_machine_init", "ros2:rcl_lifecycle_transition",
     "ros2:rclcpp_publish", "ros2:message_construct",
     "ros2:rclcpp_intra_publish", "ros2:dispatch",
     "ros2:dispatch_intra_process", "ros2_hook:take_type_erased",
     "ros2_hook:on_data_available", "ros2:rcl_publish", "ros2_hook:dds_write",
     "ros2_hook:dds_bind_addr_to_stamp", "ros2_hook:dds_bind_addr_to_addr",
     "ros2:ros_time"}

\* The kinds handler_map links to a handler.
handler_map ==
    {"ros2:rcl_init", "ros2:rcl_node_init", "ros2:rcl_publisher_init",
     "ros2:rcl_subscription_init", "ros2:rclcpp_subscription_init",
     "ros2:rclcpp_subscription_callback_added", "ros2:rcl_service_init",
     "ros2:rclcpp_service_callback_added", "ros2:rcl_client_init",
     "ros2:rcl_timer_init", "ros2:rclcpp_timer_callback_added",
     "ros2:rclcpp_timer_link_node", "ros2:rclcpp_callback_register",
     "ros2:callback_start", "ros2:callback_end",
     "ros2:rcl_lifecycle_state_machine_init", "ros2:rcl_lifecycle_transition",
     "ros2:rclcpp_publish", "ros2:message_construct",
     "ros2:rclcpp_intra_publish", "ros2:dispatch",
     "ros2:dispatch_intra_process", "ros2_hook:take_type_erased",
     "ros2_hook:on_data_available", "ros2:rcl_publish", "ros2_hook:dds_write",
     "ros2_hook:dds_bind_addr_to_stamp", "ros2_hook:dds_bind_addr_to_addr"}

\* The method written for the kind, whether registered or not.
handler_of(d, event) ==
    CASE event.kind = "ros2:rclcpp_subscription_callback_added" ->
            handle_rclcpp_subscription_callback_added(d, event)
      [] event.kind = "ros2:rclcpp_timer_callback_added" ->
            handle_rclcpp_timer_callback_added(d, event)
      [] event.kind = "ros2:rclcpp_callback_register" ->
            handle_rclcpp_callback_register(d, event)
      [] event.kind = "ros2:ros_time" -> handle_ros_time(d, event)
      [] event.kind = "ros2:rcl_init" -> handle_rcl_init(d, event)
      [] event.kind = "ros2:callback_start" -> handle_callback_start(d, event)
      [] event.kind = "ros2:callback_end" -> handle_callback_end(d, event)
      [] event.kind = "ros2:rclcpp_publish" -> handle_rclcpp_publish(d, event)
      [] event.kind = "ros2:rcl_publish" -> handle_rcl_publish(d, event)
      [] event.kind = "ros2_hook:dds_write" -> handle_dds_write(d, event)
      [] event.kind = "ros2_hook:dds_bind_addr_to_stamp" ->
            handle_dds_bind_addr_to_stamp(d, event)
      [] event.kind = "ros2_hook:on_data_available" ->
            handle_on_data_available(d, event)
      [] event.kind = "ros2_hook:take_type_erased" ->
            handle_take_type_erased(d, event)
      [] event.kind = "ros2:dispatch" -> handle_dispatch(d, event)
      [] OTHER -> d

\* EventHandler (the base class is not among the sources; from the spec):
\* an event is dispatched by its kind to the registered handler, an event
\* of a kind with none is skipped.
process_event(d, event) ==
    IF event.kind \in handler_map THEN handler_of(d, event) ELSE d

(***************************************************************************)
(* Events by kind                                                          *)
(***************************************************************************)
CallbackStartEvents ==
    [kind : {"ros2:callback_start"}, timestamp : NextTimestamps,
     callback : CallbackObjects, is_intra_process : IntraValues]

CallbackEndEvents ==
    [kind : {"ros2:callback_end"}, timestamp : NextTimestamps,
     callback : CallbackObjects]

RclInitEvents ==
    [kind : {"ros2:rcl_init"}, timestamp : NextTimestamps,
     context_handle : ContextHandles, pid : {7}, version : {"v"}]

NodeInitEvents ==
    [kind : {"ros2:rcl_node_init"}, timestamp : NextTimestamps,
     node_handle : Handles, node_name : NodeNames]

PublisherInitEvents ==
    [kind : {"ros2:rcl_publisher_init"}, timestamp : NextTimestamps,
     publisher_handle : Handles, node_handle : NodeHandles,
     topic_name : TopicNames]

LifecycleInitEvents ==
    [kind : {"ros2:rcl_lifecycle_state_machine_init"},
     timestamp : NextTimestamps,
     state_machine : Handles, node_handle : NodeHandles]

SubscriptionCallbackAddedEvents ==
    [kind : {"ros2:rclcpp_subscription_callback_added"},
     timestamp : NextTimestamps,
     subscription : SubscriptionPointers, callback : CallbackObjects]

TimerCallbackAddedEvents ==
    [kind : {"ros2:rclcpp_timer_callback_added"}, timestamp : NextTimestamps,
     timer_handle : TimerHandles, callback : CallbackObjects]

CallbackRegisterEvents ==
    [kind : {"ros2:rclcpp_callback_register"}, timestamp : NextTimestamps,
     callback : CallbackObjects, symbol : Symbols]

\* Kinds the handler map does not hold: the one handle_ros_time is written
\* for (the source names no kind for it; here ros2:ros_time), and one
\* nothing is written for.
UnregisteredKinds == {"ros2:ros_time", "ros2:rcl_unknown"}

UnregisteredEvents ==
    [kind : UnregisteredKinds, timestamp : NextTimestamps, stamp : {9}]

\* One message's way from NodeA's publisher on topic "t" to the callback
\* of NodeB's subscription: the application publishes at 100, the callback
\* starts at 140 and ends at 145.
ScenarioChain ==
    <<[kind |-> "ros2:rcl_init", timestamp |-> 90, context_handle |-> 51,
       pid |-> 7, version |-> "v"],
      [kind |-> "ros2:rclcpp_publish", timestamp |-> 100,
       publisher_handle |-> 61, message |-> 71],
      [kind |-> "ros2:rcl_publish", timestamp |-> 101,
       publisher_handle |-> 61, message |-> 71],
      [kind |-> "ros2_hook:dds_write", timestamp |-> 102, message |-> 71],
      [kind |-> "ros2_hook:dds_bind_addr_to_stamp", timestamp |-> 103,
       addr |-> 71, source_stamp |-> 81],
      [kind |-> "ros2_hook:on_data_available", timestamp |-> 130,
       source_stamp |-> 81],
      [kind |-> "ros2_hook:take_type_erased", timestamp |-> 131,
       source_stamp |-> 81, message |-> 72],
      [kind |-> "ros2:dispatch", timestamp |-> 132, callback |-> 1,
       message |-> 72],
      [kind |-> "ros2:callback_start", timestamp |-> 140, callback |-> 1,
       is_intra_process |-> 0],
      [kind |-> "ros2:callback_end", timestamp |-> 145, callback |-> 1]>>

\* What the trace may hold in the place of the chain's k-th event: the same
\* kind of event of another message or another callback-object.
ScenarioAlternatives(k) ==
    CASE k = 3 -> {[ScenarioChain[3] EXCEPT !.message = 79]}
      [] k = 7 -> {[ScenarioChain[7] EXCEPT !.source_stamp = 89]}
      [] k = 8 -> {[ScenarioChain[8] EXCEPT !.callback = 2]}
      [] k = 10 -> {[ScenarioChain[10] EXCEPT !.callback = 2]}
      [] OTHER -> {}

\* The hop compose is asked about: NodeA's publisher, NodeB's callback.
ScenarioHop == [publisher_handle |-> 61, callback_object |-> 1]

ScenarioPosition(tr) ==
    IF tr = <<>> THEN 0
    ELSE CHOOSE k \in DOMAIN ScenarioChain :
            ScenarioChain[k].kind = Last(tr).kind

(***************************************************************************)
(* Processing one event: dispatch by kind to the registered handler        *)
(***************************************************************************)
Fed(event, d) ==
    /\ pc = "processing"
    /\ trace' = Append(trace, event)
    /\ data' = d
    /\ UNCHANGED <<pc, callback_instances_buf, graph, appVars, extVars>>

CallbackStart ==
    /\ Len(trace) < MaxEvents
    /\ \E event \in CallbackStartEvents :
          Fed(event, handle_callback_start(data, event))

CallbackEnd ==
    /\ Len(trace) < MaxEvents
    /\ \E event \in CallbackEndEvents :
          Fed(event, handle_callback_end(data, event))

RclInit ==
    /\ Len(trace) < MaxInitEvents
    /\ \E event \in RclInitEvents :
          Fed(event, handle_rcl_init(data, event))

RclcppSubscriptionCallbackAdded ==
    /\ Len(trace) < MaxLinkEvents
    /\ \E event \in SubscriptionCallbackAddedEvents :
          Fed(event, process_event(data, event))

RclcppTimerCallbackAdded ==
    /\ Len(trace) < MaxLinkEvents
    /\ \E event \in TimerCallbackAddedEvents :
          Fed(event, process_event(data, event))

RclcppCallbackRegister ==
    /\ Len(trace) < MaxLinkEvents
    /\ \E event \in CallbackRegisterEvents :
          Fed(event, process_event(data, event))

Unregistered ==
    /\ Len(trace) < MaxLinkEvents
    /\ \E event \in UnregisteredEvents :
          Fed(event, process_event(data, event))

\* The next event of a trace cut out of the scenario: any later event of the
\* chain (events may be missing, as at the edge of a trace window), or an
\* event of another message in its place.
ScenarioEvent ==
    \E k \in DOMAIN ScenarioChain :
        /\ k > ScenarioPosition(trace)
        /\ \E event \in {ScenarioChain[k]} \cup ScenarioAlternatives(k) :
              Fed(event, process_event(data, event))

\* The input is exhausted. The processor (its base class is not among the
\* sources; from the spec) fails when a required kind never occurred.
EndOfInput ==
    /\ pc = "processing"
    /\ pc' = IF required_events \subseteq {trace[p].kind : p \in DOMAIN trace}
             THEN "processed" ELSE "precondition_failed"
    /\ UNCHANGED <<procVars, appVars, extVars>>

RclNodeInit ==
    /\ Len(trace) < MaxInitEvents
    /\ \E event \in NodeInitEvents :
          Fed(event, handle_rcl_node_init(data, event))

RclPublisherInit ==
    /\ Len(trace) < MaxInitEvents
    /\ \E event \in PublisherInitEvents :
          Fed(event, handle_rcl_publisher_init(data, event))

RclLifecycleStateMachineInit ==
    /\ Len(trace) < MaxInitEvents
    /\ \E event \in LifecycleInitEvents :
          Fed(event, handle_rcl_lifecycle_state_machine_init(data, event))

(***************************************************************************)
(* Architecture and Application state                                      *)
(***************************************************************************)
CallbackNames == <<"a", "b", "c">>
Callbacks == Range(CallbackNames)
MissingName == "zz"
TopicSeq == <<"t1", "t2">>

\* Node N1 owns a and b, N2 owns c, N3 owns no callback.
NodeCallbacks == <<<<"a", "b">>, <<"c">>, <<>>>>
NodeNames3 == <<"N1", "N2", "N3">>

NoCall == [start |-> "", end |-> "", by |-> ""]
NoSearch == [stack |-> <<>>, results |-> <<>>, end |-> ""]
NoReturn == [paths |-> <<>>, raised |-> FALSE]
NoApp == [edges |-> <<>>, path |-> <<>>]
\* An attribute no assignment has made yet, and one holding a value.
NoAttribute == [set |-> FALSE, value |-> <<>>]
Attribute(v) == [set |-> TRUE, value |-> v]

\* Architecture(): three empty lists; _variable_passings is not made here.
NoArch ==
    [nodes |-> <<>>, path_aliases |-> <<>>, communications |-> <<>>,
     _variable_passings |-> NoAttribute]

\* No import_file call yet. The fields: the number of calls, the last
\* call's file type, whether its file was readable and how it ended, and
\* the file and ignore_topics argument of the last call that succeeded.
NoImport ==
    [count |-> 0, file_type |-> "", readable |-> FALSE, outcome |-> "",
     given |-> FALSE, ignore_topics |-> <<>>, file |-> [readable |-> FALSE]]

AppIdle ==
    /\ imp = NoImport
    /\ samples = <<>>
    /\ arch = NoArch
    /\ app = NoApp
    /\ napps = 0
    /\ loop = 0
    /\ call = NoCall
    /\ search = NoSearch
    /\ returned = NoReturn

ProcIdle ==
    /\ imp = NoImport
    /\ samples = <<>>
    /\ trace = <<>>
    /\ data = EmptyData
    /\ callback_instances_buf = <<>>
    /\ graph = [kept |-> {}, reported |-> {}]

RECURSIVE SortedSeq(_)
SortedSeq(S) ==
    IF S = {} THEN <<>>
    ELSE LET m == CHOOSE x \in S : \A y \in S : x <= y
         IN  <<m>> \o SortedSeq(S \ {m})

RECURSIVE SubsetsUpTo(_, _)
SubsetsUpTo(S, k) ==
    IF k = 0 THEN {{}}
    ELSE SubsetsUpTo(S, k - 1) \cup
         {T \cup {x} : T \in SubsetsUpTo(S, k - 1), x \in S}

RECURSIVE Flatten(_)
Flatten(seqs) ==
    IF seqs = <<>> THEN <<>> ELSE Head(seqs) \o Flatten(Tail(seqs))

\* Every Communication a graph may hold, in a fixed order: any two different
\* callbacks on any topic (self-loops are left to the variable passings).
CommunicationCandidates ==
    SelectSeq(
        [k \in 1..(Len(CallbackNames) * Len(CallbackNames) * Len(TopicSeq)) |->
            [callback_from |->
                CallbackNames[((k - 1) \div
                    (Len(CallbackNames) * Len(TopicSeq))) + 1],
             callback_to |->
                CallbackNames[(((k - 1) \div Len(TopicSeq))
                    % Len(CallbackNames)) + 1],
             topic_name |-> TopicSeq[((k - 1) % Len(TopicSeq)) + 1]]],
        LAMBDA c : c.callback_from # c.callback_to)

\* Every VariablePassing node n may hold (both callbacks its own).
VariablePassingCandidates(n) ==
    [k \in 1..(Len(NodeCallbacks[n]) * Len(NodeCallbacks[n])) |->
        [callback_from |->
            NodeCallbacks[n][((k - 1) \div Len(NodeCallbacks[n])) + 1],
         callback_to |->
            NodeCallbacks[n][((k - 1) % Len(NodeCallbacks[n])) + 1]]]

Pick(cands, S) == [i \in DOMAIN SortedSeq(S) |-> cands[SortedSeq(S)[i]]]

ImportedNode(n, V) ==
    [node_name |-> NodeNames3[n],
     callbacks |-> NodeCallbacks[n],
     variable_passings |-> Pick(VariablePassingCandidates(n), V),
     paths |-> <<>>]

VariablePassingChoices(n) ==
    SubsetsUpTo(DOMAIN VariablePassingCandidates(n), MaxEdges)

\* The graphs an import can leave in an Architecture: at most MaxEdges edges,
\* every node's path collection empty.
ImportedArchitectures ==
    {[nodes |-> <<ImportedNode(1, W[2]), ImportedNode(2, W[3]),
                  ImportedNode(3, W[4])>>,
      path_aliases |-> <<>>,
      communications |-> Pick(CommunicationCandidates, W[1]),
      _variable_passings |-> Attribute(<<>>)] :
        W \in {X \in SubsetsUpTo(DOMAIN CommunicationCandidates, MaxEdges)
                        \X VariablePassingChoices(1)
                        \X VariablePassingChoices(2)
                        \X VariablePassingChoices(3) :
                  Cardinality(X[1]) + Cardinality(X[2])
                      + Cardinality(X[3]) + Cardinality(X[4]) <= MaxEdges}}

\* The callback lists a declared path alias may carry: one or two names, the
\* name no callback bears among them, and one list over both nodes.
AliasCallbackNames ==
    {<<x>> : x \in {"a", "b", MissingName}}
        \cup {<<x, y>> : x, y \in {"a", "b", MissingName}}
        \cup {<<"a", "c", "b">>}

PathAliases == [path_name : {"p", "q"}, callback_names : AliasCallbackNames]

RECURSIVE SeqsUpTo(_, _)
SeqsUpTo(S, k) ==
    IF k = 0 THEN {<<>>}
    ELSE SeqsUpTo(S, k - 1) \cup
         {Append(q, x) : q \in SeqsUpTo(S, k - 1), x \in S}

\* Imported graphs with declared path aliases: at most one Communication,
\* at most MaxAliases aliases (two aliases may bear the same name).
AliasArchitectures ==
    {[nodes |-> <<ImportedNode(1, {}), ImportedNode(2, {}),
                  ImportedNode(3, {})>>,
      path_aliases |-> al,
      communications |-> Pick(CommunicationCandidates, C),
      _variable_passings |-> Attribute(<<>>)] :
        al \in SeqsUpTo(PathAliases, MaxAliases),
        C \in {{}, {1}}}

\* Mutant: the property gives the attribute import_file assigned.
variable_passings_attribute(a) == a._variable_passings.value

\* Architecture.variable_passings: the nodes' variable passings, flattened.
variable_passings(a) ==
    Flatten([n \in DOMAIN a.nodes |-> a.nodes[n].variable_passings])

(***************************************************************************)
(* CallbackPathSercher (graph_search is not among the sources; from the    *)
(* spec): a depth-first search over partial paths, one edge at a time      *)
(***************************************************************************)
\* The searcher's graph: one directed edge per Communication and per
\* VariablePassing it was given.
CallbackPathSercher(nodes, communications, vps) ==
    [i \in 1..(Len(communications) + Len(vps)) |->
        IF i <= Len(communications)
        THEN <<communications[i].callback_from, communications[i].callback_to>>
        ELSE <<vps[i - Len(communications)].callback_from,
               vps[i - Len(communications)].callback_to>>]

searcher_begin(start, end) ==
    [stack |-> <<<<start>>>>, results |-> <<>>, end |-> end]

\* Mutant: an edge into a callback already on the path cuts the path back to
\* that callback and goes on from there.
ExtensionsCutBack(edges, p) ==
    LET out == SelectSeq(edges, LAMBDA e : e[1] = Last(p))
    IN  [i \in DOMAIN out |->
            IF out[i][2] \in Range(p)
            THEN SubSeq(p, 1, CHOOSE k \in DOMAIN p : p[k] = out[i][2])
            ELSE Append(p, out[i][2])]

\* The partial path p extended along every outgoing edge of its last
\* callback that leads to a callback not yet on p.
Extensions(edges, p) ==
    LET out == SelectSeq(edges,
                  LAMBDA e : e[1] = Last(p) /\ e[2] \notin Range(p))
    IN  [i \in DOMAIN out |-> Append(p, out[i][2])]

RecordFound(results, p) ==
    IF p \in Range(results) THEN results ELSE Append(results, p)

searcher_step(edges, st) ==
    LET p == Last(st.stack)
        rest == SubSeq(st.stack, 1, Len(st.stack) - 1)
    IN  IF Last(p) = st.end
        THEN [st EXCEPT !.stack = rest, !.results = RecordFound(@, p)]
        ELSE [st EXCEPT !.stack = rest \o Extensions(edges, p)]

(***************************************************************************)
(* Application                                                             *)
(***************************************************************************)
\* Path(callbacks, communications, variable_passings)
to_path(callbacks) == [callbacks |-> callbacks]

\* Mutant: the searcher's last result is left out.
search_paths_return_short(callbacks_paths) ==
    [paths |-> [i \in 1..(Len(callbacks_paths) - 1) |->
                    to_path(callbacks_paths[i])],
     raised |-> FALSE]

\* Mutant: each path is handed over from its end to its start.
search_paths_return_reversed(callbacks_paths) ==
    [paths |-> [i \in DOMAIN callbacks_paths |->
                    to_path([k \in DOMAIN callbacks_paths[i] |->
                        callbacks_paths[i][Len(callbacks_paths[i]) + 1 - k]])],
     raised |-> FALSE]

\* Mutant: an empty result is taken for a failure.
search_paths_return_raising(callbacks_paths) ==
    [paths |-> [i \in DOMAIN callbacks_paths |-> to_path(callbacks_paths[i])],
     raised |-> callbacks_paths = <<>>]

\* Mutant: a path needs an edge, one-callback paths are dropped.
search_paths_return_edges_only(callbacks_paths) ==
    [paths |-> [i \in DOMAIN SelectSeq(callbacks_paths,
                                       LAMBDA cbs : Len(cbs) > 1) |->
                    to_path(SelectSeq(callbacks_paths,
                                      LAMBDA cbs : Len(cbs) > 1)[i])],
     raised |-> FALSE]

\* search_paths, from the searcher's answer on: one Path per callback list.
search_paths_return(callbacks_paths) ==
    [paths |-> [i \in DOMAIN callbacks_paths |-> to_path(callbacks_paths[i])],
     raised |-> FALSE]

\* Mutant: only pairs of two different callbacks.
ProductDistinct(cbs) ==
    SelectSeq([k \in 1..(Len(cbs) * Len(cbs)) |->
                  <<cbs[((k - 1) \div Len(cbs)) + 1],
                    cbs[((k - 1) % Len(cbs)) + 1]>>],
              LAMBDA pr : pr[1] # pr[2])

\* product(callbacks, callbacks), in its order.
Product(cbs) ==
    [k \in 1..(Len(cbs) * Len(cbs)) |->
        <<cbs[((k - 1) \div Len(cbs)) + 1], cbs[((k - 1) % Len(cbs)) + 1]>>]

\* The searches _set_node_paths makes, in order: for every node, for every
\* pair of its callbacks.
SetNodePathsWork(nodes) ==
    Flatten([n \in DOMAIN nodes |->
        [k \in DOMAIN Product(nodes[n].callbacks) |->
            [node |-> n,
             start |-> Product(nodes[n].callbacks)[k][1],
             end |-> Product(nodes[n].callbacks)[k][2]]]])

\* Application.callbacks: the nodes' callbacks, flattened.
callbacks(nodes) == Flatten([n \in DOMAIN nodes |-> nodes[n].callbacks])

\* Util.find_one (util.py is not among the sources; from the spec), given
\* the items its condition holds for, in their order: the first of them;
\* none is a hard error.
find_one(matching) ==
    IF matching = <<>>
    THEN [raised |-> TRUE, item |-> ""]
    ELSE [raised |-> FALSE, item |-> Head(matching)]

\* Mutant: a name no callback bears gives a placeholder.
to_callback_placeholder(cbs, unique_name) ==
    IF find_one(SelectSeq(cbs, LAMBDA x : x = unique_name)).raised
    THEN [raised |-> FALSE, item |-> "None"]
    ELSE find_one(SelectSeq(cbs, LAMBDA x : x = unique_name))

\* _to_callback: the callback bearing the unique name.
to_callback(cbs, unique_name) ==
    find_one(SelectSeq(cbs, LAMBDA x : x = unique_name))

\* [self._to_callback(name) for name in alias.callback_names]
RECURSIVE to_callbacks(_, _)
to_callbacks(cbs, names) ==
    IF names = <<>> THEN [raised |-> FALSE, items |-> <<>>]
    ELSE LET h == to_callback(cbs, Head(names))
             t == to_callbacks(cbs, Tail(names))
         IN  IF h.raised \/ t.raised
             THEN [raised |-> TRUE, items |-> <<>>]
             ELSE [raised |-> FALSE, items |-> <<h.item>> \o t.items]

\* path[key] = value on a dict kept in insertion order: a key already there
\* keeps its place and takes the new value.
dict_set(path, key, value) ==
    IF \E i \in DOMAIN path : path[i].path_name = key
    THEN [i \in DOMAIN path |->
            IF path[i].path_name = key
            THEN [path_name |-> key, path |-> value] ELSE path[i]]
    ELSE Append(path, [path_name |-> key, path |-> value])

RECURSIVE to_paths_from(_, _, _)
to_paths_from(cbs, aliases, path) ==
    IF aliases = <<>> THEN [raised |-> FALSE, path |-> path]
    ELSE LET c == to_callbacks(cbs, Head(aliases).callback_names)
         IN  IF c.raised THEN [raised |-> TRUE, path |-> <<>>]
             ELSE to_paths_from(cbs, Tail(aliases),
                      dict_set(path, Head(aliases).path_name,
                               to_path(c.items)))

\* _to_paths: the path table, one named Path per alias, in alias order.
to_paths(cbs, aliases) == to_paths_from(cbs, aliases, <<>>)

\* Application.__init__ up to the alias table: the searcher over the
\* architecture's graph and the path table.
NewApplication(a) ==
    [edges |-> CallbackPathSercher(a.nodes, a.communications,
                                   variable_passings(a)),
     path |-> to_paths(callbacks(a.nodes), a.path_aliases).path]

\* Application(arch): __init__ runs up to its call of _set_node_paths; an
\* alias that does not resolve ends it with the exception, no Application
\* is built.
ApplicationInit ==
    /\ pc \in {"imported", "ready"}
    /\ napps < MaxApps
    /\ IF to_paths(callbacks(arch.nodes), arch.path_aliases).raised
       THEN /\ pc' = "failed"
            /\ UNCHANGED <<app, napps, loop>>
       ELSE /\ app' = NewApplication(arch)
            /\ napps' = napps + 1
            /\ loop' = 1
            /\ pc' = "set_node_paths"
    /\ UNCHANGED <<procVars, extVars, arch, call, search, returned>>

\* _set_node_paths: the next pair's search_paths call, or the end of the
\* loops and of __init__.
SetNodePathsNext ==
    /\ pc = "set_node_paths"
    /\ IF loop <= Len(SetNodePathsWork(arch.nodes))
       THEN /\ call' = [start |-> SetNodePathsWork(arch.nodes)[loop].start,
                        end |-> SetNodePathsWork(arch.nodes)[loop].end,
                        by |-> "set_node_paths"]
            /\ search' = searcher_begin(call'.start, call'.end)
            /\ pc' = "searching"
       ELSE /\ pc' = "ready"
            /\ UNCHANGED <<call, search>>
    /\ UNCHANGED <<procVars, extVars, arch, app, napps, loop, returned>>

\* search_paths is called from outside with two callback names; a name no
\* callback bears makes the searcher raise.
SearchCall ==
    /\ pc = "ready"
    /\ \E start, end \in Callbacks \cup {MissingName} :
          /\ call' = [start |-> start, end |-> end, by |-> "caller"]
          /\ IF start \in Callbacks /\ end \in Callbacks
             THEN /\ search' = searcher_begin(start, end)
                  /\ pc' = "searching"
                  /\ UNCHANGED returned
             ELSE /\ returned' = [paths |-> <<>>, raised |-> TRUE]
                  /\ pc' = "returned"
                  /\ UNCHANGED search
    /\ UNCHANGED <<procVars, extVars, arch, app, napps, loop>>

SearcherStep ==
    /\ pc = "searching"
    /\ search.stack # <<>>
    /\ search' = searcher_step(app.edges, search)
    /\ UNCHANGED <<pc, procVars, extVars, arch, app, napps, loop, call, returned>>

\* Mutant: the node's collection is replaced by the paths found.
node_paths_assign(paths, found) == found

\* node.paths += the paths a search_paths call found
node_paths_add(paths, found) == paths \o found

\* search_paths returns; inside _set_node_paths the paths are added to the
\* node's collection (node.paths += ...), an exception ends __init__.
SearchReturn ==
    /\ pc = "searching"
    /\ search.stack = <<>>
    /\ returned' = search_paths_return(search.results)
    /\ IF call.by = "set_node_paths"
       THEN IF returned'.raised
            THEN /\ pc' = "failed"
                 /\ UNCHANGED <<arch, loop>>
            ELSE /\ arch' = [arch EXCEPT
                        !.nodes[SetNodePathsWork(arch.nodes)[loop].node].paths =
                            node_paths_add(@, returned'.paths)]
                 /\ loop' = loop + 1
                 /\ pc' = "set_node_paths"
       ELSE /\ pc' = "returned"
            /\ UNCHANGED <<arch, loop>>
    /\ UNCHANGED <<procVars, extVars, app, napps, call, search>>

InitApp ==
    /\ pc = "imported"
    /\ ProcIdle
    /\ arch \in ImportedArchitectures
    /\ app = NoApp
    /\ napps = 0
    /\ loop = 0
    /\ call = NoCall
    /\ search = NoSearch
    /\ returned = NoReturn

(***************************************************************************)
(* Architecture.import_file                                                *)
(***************************************************************************)
\* Mutant: the default list without "/rosout".
IGNORE_TOPICS_short == <<"/parameter_events">>

IGNORE_TOPICS == <<"/parameter_events", "/rosout">>

ArchTopics == {"/parameter_events", "/rosout", "t1"}

\* In the files imported here callbacks a and c each publish on one topic
\* (c always on "t1") and callback b subscribes to one.
PublisherCallbacks == <<"a", "c">>
SubscriptionCallbacks == <<"b">>

UnreadableFile == [readable |-> FALSE]

\* A readable file also declares no path alias or one, and for each node
\* its variable passings: none at all, or a to b in N1 and c to c in N2.
\* The importer reports a variable passing list of its own next to the
\* nodes: here an empty one or one holding b to a.
ArchitectureFiles ==
    [readable : {TRUE},
     publishes : {f \in [Range(PublisherCallbacks) -> ArchTopics] :
                    f["c"] = "t1"},
     subscribes : [Range(SubscriptionCallbacks) -> ArchTopics],
     path_aliases :
        {<<>>, <<[path_name |-> "p", callback_names |-> <<"a", "b">>]>>},
     variable_passings : {<<{}, {}, {}>>, <<{2}, {1}, {}>>},
     importer_variable_passings : {{}, {3}}]
        \cup {UnreadableFile}

\* The file types tried: one for each importer and one that is none.
FileTypes == {"lttng", "yaml", "json"}

\* What a caller may pass as ignore_topics; given = FALSE leaves the default.
IgnoreArguments ==
    {[given |-> FALSE, topics |-> <<>>], [given |-> TRUE, topics |-> <<"t1">>]}

\* The importers (not among the sources; from the spec): exec fails on a
\* file it cannot read; otherwise one Communication for every publisher and
\* subscription whose topic names match, the topic not ignore-listed.
importer_exec(file, ignore_topics) ==
    IF ~file.readable
    THEN [raised |-> TRUE, nodes |-> <<>>, path_aliases |-> <<>>,
          communications |-> <<>>, variable_passings |-> <<>>]
    ELSE [raised |-> FALSE,
          nodes |-> [n \in DOMAIN NodeCallbacks |->
                        ImportedNode(n, file.variable_passings[n])],
          path_aliases |-> file.path_aliases,
          variable_passings |->
            Pick(VariablePassingCandidates(1),
                 file.importer_variable_passings),
          communications |->
            SelectSeq(
                [k \in 1..(Len(PublisherCallbacks)
                              * Len(SubscriptionCallbacks)) |->
                    [callback_from |-> PublisherCallbacks[
                        ((k - 1) \div Len(SubscriptionCallbacks)) + 1],
                     callback_to |-> SubscriptionCallbacks[
                        ((k - 1) % Len(SubscriptionCallbacks)) + 1],
                     topic_name |-> file.publishes[PublisherCallbacks[
                        ((k - 1) \div Len(SubscriptionCallbacks)) + 1]]]],
                LAMBDA c :
                    /\ file.subscribes[c.callback_to] = c.topic_name
                    /\ c.topic_name \notin Range(ignore_topics))]

\* Mutant: the attributes are cleared before the importer runs.
import_file_clearing(a, file, file_type, ignore_topics) ==
    IF file_type \notin {"ctf", "lttng", "yml", "yaml"}
    THEN [raised |-> "AssertionError", arch |-> a]
    ELSE IF importer_exec(file, ignore_topics).raised
    THEN [raised |-> "ImporterError", arch |-> NoArch]
    ELSE [raised |-> "",
          arch |-> [nodes |-> importer_exec(file, ignore_topics).nodes,
                    path_aliases |->
                        importer_exec(file, ignore_topics).path_aliases,
                    communications |->
                        importer_exec(file, ignore_topics).communications,
                    _variable_passings |->
                        Attribute(importer_exec(file, ignore_topics)
                                    .variable_passings)]]

\* import_file: the assert on the file type, the importer's exec, and only
\* then the assignments of what the importer found.
import_file(a, file, file_type, ignore_topics) ==
    IF file_type \notin {"ctf", "lttng", "yml", "yaml"}
    THEN [raised |-> "AssertionError", arch |-> a]
    ELSE IF importer_exec(file, ignore_topics).raised
    THEN [raised |-> "ImporterError", arch |-> a]
    ELSE [raised |-> "",
          arch |-> [nodes |-> importer_exec(file, ignore_topics).nodes,
                    path_aliases |->
                        importer_exec(file, ignore_topics).path_aliases,
                    communications |->
                        importer_exec(file, ignore_topics).communications,
                    _variable_passings |->
                        Attribute(importer_exec(file, ignore_topics)
                                    .variable_passings)]]

\* A call of import_file; ignore_topics left out takes IGNORE_TOPICS.
\* imp keeps the input of the last call that succeeded.
ImportFile ==
    /\ pc = "architecture"
    /\ imp.count < MaxImports
    /\ \E file \in ArchitectureFiles, file_type \in FileTypes,
          ignore \in IgnoreArguments :
          LET r == import_file(arch, file, file_type,
                               IF ignore.given THEN ignore.topics
                               ELSE IGNORE_TOPICS)
          IN  /\ arch' = r.arch
              /\ imp' = IF r.raised = ""
                        THEN [count |-> imp.count + 1,
                              file_type |-> file_type,
                              readable |-> file.readable,
                              outcome |-> "imported",
                              given |-> ignore.given,
                              ignore_topics |-> ignore.topics, file |-> file]
                        ELSE [imp EXCEPT !.count = @ + 1,
                                         !.file_type = file_type,
                                         !.readable = file.readable,
                                         !.outcome = r.raised]
    /\ UNCHANGED <<pc, procVars, samples, app, napps, loop, call, search,
                   returned>>

\* Architecture(): every attribute an empty list.
InitArch ==
    /\ pc = "architecture"
    /\ ProcIdle
    /\ AppIdle

SpecArch == InitArch /\ [][ImportFile]_vars

(***************************************************************************)
(* Latency composition over one Communication (the composer is not among   *)
(* the sources; from the spec): from a publish instance along the records  *)
(* of the dispatch chain, each the first one at or after its predecessor   *)
(* with the matching key, to the callback instance and its end             *)
(***************************************************************************)
\* The first of the records S of a table, 0 when there is none.
FirstOf(S) == IF S = {} THEN 0 ELSE CHOOSE i \in S : \A j \in S : i <= j

\* The records of a table at or after time t.
From(tbl, t) == {i \in DOMAIN tbl : tbl[i].timestamp >= t}

FirstInstanceFrom(d, t, callback) ==
    FirstOf({i \in DOMAIN d.callback_instances :
                /\ d.callback_instances[i].start >= t
                /\ d.callback_instances[i].callback = callback})

\* The receive side: data available, taken, dispatched to the callback,
\* the callback's instance started and ended.
receive_chain(d, bound, callback_object) ==
    LET o == FirstOf({i \in From(d.on_data_available_instances,
                                 bound.timestamp) :
                d.on_data_available_instances[i].source_stamp =
                    bound.source_stamp})
    IN  IF o = 0 THEN 0 ELSE
    LET t == FirstOf({i \in From(d.take_type_erased_instances,
                            d.on_data_available_instances[o].timestamp) :
                d.take_type_erased_instances[i].source_stamp =
                    bound.source_stamp})
    IN  IF t = 0 THEN 0 ELSE
    LET k == FirstOf({i \in From(d.dispatch_instances,
                            d.take_type_erased_instances[t].timestamp) :
                /\ d.dispatch_instances[i].message =
                      d.take_type_erased_instances[t].message
                /\ d.dispatch_instances[i].callback_object =
                      callback_object})
    IN  IF k = 0 THEN 0
        ELSE FirstInstanceFrom(d, d.dispatch_instances[k].timestamp,
                               callback_object)

\* The publish side: the application's publish, the middleware's, the
\* transport's write, the binding of the message to its source timestamp.
publish_chain(d, pub) ==
    LET r == FirstOf({i \in From(d.rcl_publish_instances, pub.timestamp) :
                /\ d.rcl_publish_instances[i].message = pub.message
                /\ d.rcl_publish_instances[i].publisher_handle =
                      pub.publisher_handle})
    IN  IF r = 0 THEN 0 ELSE
    LET w == FirstOf({i \in From(d.dds_write_instances,
                                 d.rcl_publish_instances[r].timestamp) :
                d.dds_write_instances[i].message = pub.message})
    IN  IF w = 0 THEN 0
        ELSE FirstOf({i \in From(d.dds_bind_addr_to_stamp,
                                 d.dds_write_instances[w].timestamp) :
                d.dds_bind_addr_to_stamp[i].addr = pub.message})

\* The samples of one publish instance: one if its chain resolves to an
\* ended callback instance, else none.
compose_one(d, pub, callback_object) ==
    IF publish_chain(d, pub) = 0 THEN <<>>
    ELSE LET i == receive_chain(d,
                    d.dds_bind_addr_to_stamp[publish_chain(d, pub)],
                    callback_object)
         IN  IF i = 0 THEN <<>>
             ELSE IF EndOf(d, i) = Open THEN <<>>
             ELSE <<[start |-> pub.timestamp,
                     receive |-> d.callback_instances[i].start,
                     end |-> EndOf(d, i)[1],
                     elapsed |-> EndOf(d, i)[1] - pub.timestamp]>>

compose(d, hop) ==
    Flatten([p \in DOMAIN d.rclcpp_publish_instances |->
        IF d.rclcpp_publish_instances[p].publisher_handle =
              hop.publisher_handle
        THEN compose_one(d, d.rclcpp_publish_instances[p],
                         hop.callback_object)
        ELSE <<>>])

\* A latency query over the processed input.
Compose ==
    /\ pc = "processed"
    /\ pc' = "composed"
    /\ samples' = compose(data, ScenarioHop)
    /\ UNCHANGED <<procVars, appVars, imp>>

(***************************************************************************)
(* Identity resolution and the graph builder's entity selection (from the  *)
(* spec: the data model and the importers are not among the sources)       *)
(***************************************************************************)
InitKinds ==
    {"ros2:rcl_node_init", "ros2:rcl_publisher_init",
     "ros2:rcl_lifecycle_state_machine_init"}

TableOf(d, kind) ==
    CASE kind = "ros2:rcl_node_init" -> d.nodes
      [] kind = "ros2:rcl_publisher_init" -> d.publishers
      [] kind = "ros2:rcl_lifecycle_state_machine_init" ->
            d.lifecycle_state_machines

\* Row i's recorded interval [its init timestamp, the next init timestamp of
\* the same handle) contains t. A row recorded without a timestamp has no
\* recorded bounds: nothing excludes any t.
Covers(tbl, i, t) ==
    IF "timestamp" \in DOMAIN tbl[i]
    THEN /\ tbl[i].timestamp <= t
         /\ ~ \E j \in DOMAIN tbl :
                /\ tbl[j].handle = tbl[i].handle
                /\ tbl[i].timestamp < tbl[j].timestamp
                /\ tbl[j].timestamp <= t
    ELSE TRUE

Candidates(tbl, handle, at_time) ==
    {i \in DOMAIN tbl : tbl[i].handle = handle /\ Covers(tbl, i, at_time)}

resolve(tbl, handle, at_time) ==
    LET cand == Candidates(tbl, handle, at_time)
    IN  IF cand = {} THEN [status |-> "not_found", entity |-> 0]
        ELSE IF Cardinality(cand) > 1 THEN [status |-> "ambiguous", entity |-> 0]
        ELSE [status |-> "found", entity |-> CHOOSE i \in cand : TRUE]

RowTime(row) == IF "timestamp" \in DOMAIN row THEN row.timestamp ELSE 0

\* The builder keeps an entity only if looking its handle up at its own init
\* time gives that entity; every ambiguous lookup is reported.
build(d) ==
    [kept |->
        {<<kind, i>> \in InitKinds \X (1..MaxInitEvents) :
            /\ i \in DOMAIN TableOf(d, kind)
            /\ resolve(TableOf(d, kind), TableOf(d, kind)[i].handle,
                       RowTime(TableOf(d, kind)[i])) =
                 [status |-> "found", entity |-> i]},
     reported |->
        {<<kind, i>> \in InitKinds \X (1..MaxInitEvents) :
            /\ i \in DOMAIN TableOf(d, kind)
            /\ resolve(TableOf(d, kind), TableOf(d, kind)[i].handle,
                       RowTime(TableOf(d, kind)[i])).status = "ambiguous"}]

Build ==
    /\ pc = "processed"
    /\ pc' = "built"
    /\ graph' = build(data)
    /\ UNCHANGED <<trace, data, callback_instances_buf, appVars, extVars>>

(***************************************************************************)
(* What the event sequence itself says about handles                       *)
(***************************************************************************)
HandleOf(event) ==
    CASE event.kind = "ros2:rcl_node_init" -> event.node_handle
      [] event.kind = "ros2:rcl_publisher_init" -> event.publisher_handle
      [] event.kind = "ros2:rcl_lifecycle_state_machine_init" ->
            event.state_machine

InitPositions(tr, kind, h) ==
    {p \in DOMAIN tr : tr[p].kind = kind /\ HandleOf(tr[p]) = h}

\* The entity an init event created: rows are recorded in input order.
EntityOf(tr, kind, p) == Cardinality({r \in 1..p : tr[r].kind = kind})

Times == 0..(MaxTime + 1)

\* t lies strictly inside the interval that the init at position p opens.
StrictlyInside(tr, kind, h, p, t) ==
    /\ tr[p].timestamp < t
    /\ \A q \in InitPositions(tr, kind, h) : q > p => t < tr[q].timestamp

Increasing(tr, kind, h) ==
    \A p, q \in InitPositions(tr, kind, h) :
        p < q => tr[p].timestamp < tr[q].timestamp

(***************************************************************************)
(* What the event sequence itself says about callback instances            *)
(***************************************************************************)
IsStart(tr, p, c) ==
    tr[p].kind = "ros2:callback_start" /\ tr[p].callback = c

IsEnd(tr, p, c) ==
    tr[p].kind = "ros2:callback_end" /\ tr[p].callback = c

StartsIn(tr, c, lo, hi) == Cardinality({r \in lo..hi : IsStart(tr, r, c)})

EndsIn(tr, c, lo, hi) == Cardinality({r \in lo..hi : IsEnd(tr, r, c)})

\* The start at position p is still open after the first q events: no end
\* event of its callback-object after p found every later start closed.
StillOpenAfter(tr, p, c, q) ==
    \A r \in (p + 1)..q : EndsIn(tr, c, p + 1, r) <= StartsIn(tr, c, p + 1, r)

OpenStarts(tr, c) ==
    {p \in DOMAIN tr : IsStart(tr, p, c) /\ StillOpenAfter(tr, p, c, Len(tr))}

\* The instance a start event created: starts are recorded in input order.
InstanceOf(tr, p) ==
    Cardinality({r \in 1..p : tr[r].kind = "ros2:callback_start"})

CompletedInstances(d, c) ==
    {i \in DOMAIN d.callback_instances :
        /\ d.callback_instances[i].callback = c
        /\ EndOf(d, i) # Open}

(***************************************************************************)
(* C1: for every callback-object c, the instances of c with both a start   *)
(* and an end number the start events of c minus the starts of c still     *)
(* open at the end of the events fed; and one end event closes at most one *)
(* instance, of its own callback-object, which no other end event closes.  *)
(***************************************************************************)
C1_CountHolds ==
    \A c \in CallbackObjects :
        Cardinality(CompletedInstances(data, c)) =
            StartsIn(trace, c, 1, Len(trace)) - Cardinality(OpenStarts(trace, c))

C1_OneEndOneStart ==
    /\ \A k \in DOMAIN data.callback_end_instances :
          LET e == data.callback_end_instances[k]
          IN  e.closes # 0 =>
                /\ e.closes \in DOMAIN data.callback_instances
                /\ data.callback_instances[e.closes].callback = e.callback
    /\ \A i \in DOMAIN data.callback_instances :
          Cardinality(ClosedBy(data, i)) <= 1

C1_InstanceCount == C1_CountHolds /\ C1_OneEndOneStart

\* Two starts of c, one of them closed and one still open, and a second
\* end of c that found no start open.
C1_Witness ==
    \E c \in CallbackObjects :
        /\ StartsIn(trace, c, 1, Len(trace)) = 2
        /\ Cardinality(CompletedInstances(data, c)) = 1
        /\ Cardinality(OpenStarts(trace, c)) = 1
        /\ EndsIn(trace, c, 1, Len(trace)) = 2

(***************************************************************************)
(* C2: a callback-end event of c closes the instance of the most recent    *)
(* still-open start of c, whatever events of other callback-objects lie    *)
(* between them, and changes no other instance; with no start of c open it *)
(* closes nothing.                                                         *)
(***************************************************************************)
C2_EndStep ==
    (trace' # trace /\ Last(trace').kind = "ros2:callback_end") =>
        LET event == Last(trace')
            open == OpenStarts(trace, event.callback)
        IN  data' = [data EXCEPT !.callback_end_instances = Append(@,
                    [callback |-> event.callback,
                     timestamp |-> event.timestamp,
                     closes |-> IF open = {} THEN 0
                                ELSE InstanceOf(trace, SetMax(open))])]

C2_ClosesMostRecentOpen == [][C2_EndStep]_vars

\* Two starts of c, then an event of another callback-object, then an end
\* of c: the second start's instance is closed, the first is still open.
C2_Witness ==
    \E c \in CallbackObjects : \E p, q, r, e \in DOMAIN trace :
        /\ p < q /\ q < r /\ r < e
        /\ IsStart(trace, p, c) /\ IsStart(trace, q, c)
        /\ trace[r].callback # c
        /\ IsEnd(trace, e, c)
        /\ EndsIn(trace, c, 1, Len(trace)) = 1
        /\ EndOf(data, InstanceOf(trace, q)) = <<trace[e].timestamp>>
        /\ EndOf(data, InstanceOf(trace, p)) = Open


(***************************************************************************)
(* C3: for every handle-identified entity kind and every handle            *)
(* initialised with increasing timestamps, resolve(h, t) is the entity     *)
(* whose interval contains t, for every t strictly inside an interval.     *)
(***************************************************************************)
ResolvesByInterval(kind) ==
    \A h \in Handles :
        Increasing(trace, kind, h) =>
            \A p \in InitPositions(trace, kind, h) : \A t \in Times :
                StrictlyInside(trace, kind, h, p, t) =>
                    resolve(TableOf(data, kind), h, t) =
                        [status |-> "found",
                         entity |-> EntityOf(trace, kind, p)]

C3_ResolveEveryKind == \A kind \in InitKinds : ResolvesByInterval(kind)

(***************************************************************************)
(* C4: two entities recorded under one handle at the same timestamp make   *)
(* every lookup at a time both intervals contain ambiguous, and neither    *)
(* entity is in the built graph.                                           *)
(***************************************************************************)
SameInstant(tr, kind, p, q) ==
    /\ p # q
    /\ tr[p].kind = kind /\ tr[q].kind = kind
    /\ HandleOf(tr[p]) = HandleOf(tr[q])
    /\ tr[p].timestamp = tr[q].timestamp

InBoth(tr, kind, p, t) ==
    /\ tr[p].timestamp <= t
    /\ \A r \in InitPositions(tr, kind, HandleOf(tr[p])) :
          ~ (tr[p].timestamp < tr[r].timestamp /\ tr[r].timestamp <= t)

C4_AmbiguityReported ==
    \A kind \in InitKinds : \A p, q \in DOMAIN trace :
        SameInstant(trace, kind, p, q) =>
            /\ \A t \in Times :
                  InBoth(trace, kind, p, t) =>
                      resolve(TableOf(data, kind), HandleOf(trace[p]), t) =
                          [status |-> "ambiguous", entity |-> 0]
            /\ pc = "built" =>
                  /\ <<kind, EntityOf(trace, kind, p)>> \notin graph.kept
                  /\ <<kind, EntityOf(trace, kind, q)>> \in graph.reported

\* Two publishers initialised under one handle at one instant, and the
\* graph built: both are reported, neither is kept.
C4_Witness ==
    /\ pc = "built"
    /\ \E p, q \in DOMAIN trace :
          /\ SameInstant(trace, "ros2:rcl_publisher_init", p, q)
          /\ graph.kept = {}
          /\ graph.reported =
                {<<"ros2:rcl_publisher_init",
                   EntityOf(trace, "ros2:rcl_publisher_init", r)>> :
                        r \in {p, q}}


(***************************************************************************)
(* What the architecture's graph itself says about paths                   *)
(***************************************************************************)
EdgePairs(a) ==
    {<<e.callback_from, e.callback_to>> : e \in Range(a.communications)}
        \cup {<<e.callback_from, e.callback_to>> :
                e \in Range(variable_passings(a))}

NoRepeat(p) == \A i, j \in DOMAIN p : i # j => p[i] # p[j]

Joined(a, p) ==
    \A i \in 1..(Len(p) - 1) : <<p[i], p[i + 1]>> \in EdgePairs(a)

CallbackSequences ==
    UNION {[1..n -> Callbacks] : n \in 1..Len(CallbackNames)}

SimplePaths(a, start, end) ==
    {p \in CallbackSequences :
        /\ p[1] = start /\ Last(p) = end
        /\ NoRepeat(p)
        /\ Joined(a, p)}

\* The callbacks some chain of one or more edges leads to from S.
RECURSIVE Reached(_, _)
Reached(a, S) ==
    LET more == S \cup {e[2] : e \in {f \in EdgePairs(a) : f[1] \in S}}
    IN  IF more = S THEN S ELSE Reached(a, more)

HasChain(a, start, end) ==
    end \in Reached(a, {e[2] : e \in {f \in EdgePairs(a) : f[1] = start}})

ReturnedSequences == {returned.paths[i].callbacks : i \in DOMAIN returned.paths}

Answered == pc = "returned" /\ ~returned.raised

(***************************************************************************)
(* C5: every search that has started ends: search_paths returns, on every  *)
(* graph, cycles and self-loops reachable from start included.             *)
(***************************************************************************)
C5_SearchTerminates == (pc = "searching") ~> (pc # "searching")

\* A search from a callback on a cycle of three has returned.
C5_Witness ==
    /\ Answered
    /\ \E x, y \in Callbacks :
          /\ x # y /\ x # call.start /\ y # call.start
          /\ {<<call.start, x>>, <<x, y>>, <<y, call.start>>}
                \subseteq EdgePairs(arch)

(***************************************************************************)
(* C6: every returned path begins at start, ends at end, holds no callback *)
(* twice, and each consecutive pair of its callbacks is joined by a        *)
(* Communication or a VariablePassing of the graph.                        *)
(***************************************************************************)
C6_PathsAreSimple ==
    pc = "returned" =>
        \A i \in DOMAIN returned.paths :
            LET p == returned.paths[i].callbacks
            IN  /\ p # <<>>
                /\ p[1] = call.start /\ Last(p) = call.end
                /\ NoRepeat(p)
                /\ Joined(arch, p)

C6_Witness ==
    /\ Answered
    /\ \E i \in DOMAIN returned.paths : Len(returned.paths[i].callbacks) = 3
    /\ \E x \in Callbacks :
          {<<call.end, x>>, <<x, call.end>>} \subseteq EdgePairs(arch)

(***************************************************************************)
(* C7: the returned collection is the set of all simple paths from start   *)
(* to end, each callback sequence once, also when two callbacks are joined *)
(* by more than one edge.                                                  *)
(***************************************************************************)
C7_ExhaustiveOnce ==
    Answered =>
        /\ ReturnedSequences = SimplePaths(arch, call.start, call.end)
        /\ Len(returned.paths) = Cardinality(ReturnedSequences)

\* One path of three callbacks returned, its first two callbacks joined by
\* two edges.
C7_Witness ==
    /\ Answered
    /\ Len(returned.paths) = 1
    /\ Len(returned.paths[1].callbacks) = 3
    /\ \E i, j \in DOMAIN app.edges :
          /\ i # j /\ app.edges[i] = app.edges[j]
          /\ app.edges[i] = <<returned.paths[1].callbacks[1],
                              returned.paths[1].callbacks[2]>>

(***************************************************************************)
(* C8: with both callbacks in the model and no chain of edges from start   *)
(* to end, search_paths returns an empty collection and raises nothing.    *)
(***************************************************************************)
C8_NoChainEmpty ==
    (/\ pc = "returned"
     /\ call.start \in Callbacks /\ call.end \in Callbacks
     /\ call.start # call.end
     /\ ~HasChain(arch, call.start, call.end)) =>
        /\ returned.paths = <<>>
        /\ ~returned.raised

\* No chain from start to end although start has an edge out and an edge
\* leads from end to start.
C8_Witness ==
    /\ pc = "returned"
    /\ call.start \in Callbacks /\ call.end \in Callbacks
    /\ call.start # call.end
    /\ ~HasChain(arch, call.start, call.end)
    /\ \E x \in Callbacks \ {call.start} : <<call.start, x>> \in EdgePairs(arch)
    /\ <<call.end, call.start>> \in EdgePairs(arch)
    /\ returned.paths = <<>>

(***************************************************************************)
(* C9: search(c, c) returns exactly the one-callback path [c], with or     *)
(* without edges out of c, on a cycle or not.                              *)
(***************************************************************************)
C9_SelfSearch ==
    (pc = "returned" /\ call.start \in Callbacks /\ call.end = call.start) =>
        /\ returned.paths = <<to_path(<<call.start>>)>>
        /\ ~returned.raised

\* c lies on a cycle of two and has a self-loop as well.
C9_Witness ==
    /\ Answered
    /\ call.end = call.start
    /\ <<call.start, call.start>> \in EdgePairs(arch)
    /\ \E x \in Callbacks \ {call.start} :
          {<<call.start, x>>, <<x, call.start>>} \subseteq EdgePairs(arch)

(***************************************************************************)
(* C10: once an Application is built, each node's path collection holds    *)
(* exactly the simple paths between every ordered pair of the node's own   *)
(* callbacks, self-pairs included, each once after the first build; a node *)
(* without callbacks has an empty collection.                              *)
(***************************************************************************)
NodePathSequences(node) == {node.paths[i].callbacks : i \in DOMAIN node.paths}

IntraNodePaths(a, node) ==
    UNION {SimplePaths(a, x, y) :
            x \in Range(node.callbacks), y \in Range(node.callbacks)}

C10_NodePaths ==
    (pc = "ready" /\ napps >= 1) =>
        \A n \in DOMAIN arch.nodes :
            /\ NodePathSequences(arch.nodes[n]) =
                  IntraNodePaths(arch, arch.nodes[n])
            /\ napps = 1 =>
                  Len(arch.nodes[n].paths) =
                      Cardinality(IntraNodePaths(arch, arch.nodes[n]))
            /\ arch.nodes[n].callbacks = <<>> => arch.nodes[n].paths = <<>>

\* Built once: N1 holds its two self-paths, a path a -> b and a path
\* b -> c -> a that leaves the node; N3 holds nothing.
C10_Witness ==
    /\ pc = "ready" /\ napps = 1
    /\ Len(arch.nodes[1].paths) = 4
    /\ \E i \in DOMAIN arch.nodes[1].paths :
          arch.nodes[1].paths[i].callbacks = <<"b", "c", "a">>
    /\ arch.nodes[3].paths = <<>>


(***************************************************************************)
(* What the event sequence itself says about callback registration         *)
(***************************************************************************)
IsLink(event) ==
    event.kind \in {"ros2:rclcpp_subscription_callback_added",
                    "ros2:rclcpp_timer_callback_added"}

OwnerIn(event) ==
    IF event.kind = "ros2:rclcpp_subscription_callback_added"
    THEN event.subscription ELSE event.timer_handle

IsRegister(event) == event.kind = "ros2:rclcpp_callback_register"

(***************************************************************************)
(* C14: an event of a kind with no registered handler changes no table and *)
(* no log of the data model and does not end the processing, wherever it   *)
(* occurs among the other events.                                          *)
(***************************************************************************)
C14_Step ==
    (trace' # trace /\ Last(trace').kind \in UnregisteredKinds) =>
        /\ Last(trace').kind \notin handler_map
        /\ data' = data
        /\ pc' = pc
        /\ graph' = graph

C14_UnregisteredIgnored == [][C14_Step]_vars

\* A link event, then an event of the kind handle_ros_time is written for,
\* then a symbol event: two records, no ros time.
C14_Witness ==
    /\ Len(trace) = 3
    /\ IsLink(trace[1])
    /\ trace[2].kind = "ros2:ros_time"
    /\ IsRegister(trace[3])
    /\ Len(data.callback_objects) = 1
    /\ Len(data.callback_symbols) = 1
    /\ data.ros_times = <<>>

(***************************************************************************)
(* C19: a callback-object-link event is recorded whether or not the symbol *)
(* is known; a callback-symbol-link event is recorded and leaves the link  *)
(* records as they are; once both events of a callback-object occurred, in *)
(* either order and with other events between them, the callback-object    *)
(* has its owning handle and its symbol.                                   *)
(***************************************************************************)
C19_LinkStep ==
    (trace' # trace /\ IsLink(Last(trace'))) =>
        /\ data'.callback_objects = Append(data.callback_objects,
              [reference |-> OwnerIn(Last(trace')),
               timestamp |-> Last(trace').timestamp,
               callback_object |-> Last(trace').callback])
        /\ data'.callback_symbols = data.callback_symbols

C19_RegisterStep ==
    (trace' # trace /\ IsRegister(Last(trace'))) =>
        /\ data'.callback_objects = data.callback_objects
        /\ data'.callback_symbols = Append(data.callback_symbols,
              [callback_object |-> Last(trace').callback,
               timestamp |-> Last(trace').timestamp,
               symbol |-> Last(trace').symbol])

C19_BothKnown ==
    \A p, q \in DOMAIN trace :
        (/\ IsLink(trace[p]) /\ IsRegister(trace[q])
         /\ trace[p].callback = trace[q].callback) =>
            /\ \E i \in DOMAIN data.callback_objects :
                  /\ data.callback_objects[i].callback_object =
                        trace[p].callback
                  /\ data.callback_objects[i].reference = OwnerIn(trace[p])
            /\ \E j \in DOMAIN data.callback_symbols :
                  /\ data.callback_symbols[j].callback_object =
                        trace[q].callback
                  /\ data.callback_symbols[j].symbol = trace[q].symbol

C19_TwoPhaseRegistration ==
    /\ []C19_BothKnown
    /\ [][C19_LinkStep /\ C19_RegisterStep]_vars

\* A timer's callback-object is linked, an event of another callback-object
\* follows, then the symbol of the first: it has handle and symbol.
C19_Witness ==
    /\ Len(trace) = 3
    /\ trace[1].kind = "ros2:rclcpp_timer_callback_added"
    /\ IsLink(trace[2]) /\ trace[2].callback # trace[1].callback
    /\ IsRegister(trace[3]) /\ trace[3].callback = trace[1].callback
    /\ \E i \in DOMAIN data.callback_objects :
          /\ data.callback_objects[i].callback_object = trace[1].callback
          /\ data.callback_objects[i].reference \in TimerHandles
    /\ \E j \in DOMAIN data.callback_symbols :
          data.callback_symbols[j].callback_object = trace[1].callback

(***************************************************************************)
(* C15: every table and log of the data model only grows at its end: after *)
(* any event it begins with exactly the records it held before, also when  *)
(* a handle or a callback-object is initialised again.                     *)
(***************************************************************************)
IsPrefix(s, t) == Len(s) <= Len(t) /\ SubSeq(t, 1, Len(s)) = s

C15_Step == \A f \in DOMAIN data : IsPrefix(data[f], data'[f])

C15_AppendOnly == [][C15_Step]_vars

\* A node handle initialised twice, both nodes recorded, in input order.
C15_Witness ==
    /\ Len(trace) = 2
    /\ trace[1].kind = "ros2:rcl_node_init"
    /\ trace[2].kind = "ros2:rcl_node_init"
    /\ trace[1].node_handle = trace[2].node_handle
    /\ Len(data.nodes) = 2
    /\ data.nodes[1].timestamp = trace[1].timestamp
    /\ data.nodes[2].timestamp = trace[2].timestamp

(***************************************************************************)
(* C16: when no ros2:rcl_init event occurred in the whole input, the end   *)
(* of the input is a precondition failure and no graph is ever built; when *)
(* one occurred, the input is processed without that failure.              *)
(***************************************************************************)
RequiredKindSeen(tr) == \E p \in DOMAIN tr : tr[p].kind = "ros2:rcl_init"

C16_RequiredKind ==
    /\ pc = "precondition_failed" =>
          /\ ~RequiredKindSeen(trace)
          /\ graph = [kept |-> {}, reported |-> {}]
    /\ pc \in {"processed", "built"} => RequiredKindSeen(trace)

\* A node and a publisher were initialised, no ros2:rcl_init occurred, and
\* the end of the input was the precondition failure.
C16_Witness ==
    /\ pc = "precondition_failed"
    /\ Len(data.nodes) = 1
    /\ Len(data.publishers) = 1

(***************************************************************************)
(* What the declared aliases themselves say                                *)
(***************************************************************************)
NamesMissingCallback(alias) ==
    \E k \in DOMAIN alias.callback_names :
        alias.callback_names[k] \notin Callbacks

(***************************************************************************)
(* C11: when a declared path alias names a callback no node has, building  *)
(* the Application fails and none is built; and no named Path of the path  *)
(* table ever holds anything but callbacks of the nodes.                   *)
(***************************************************************************)
C11_UnresolvedAliasFails ==
    /\ (\E i \in DOMAIN arch.path_aliases :
            NamesMissingCallback(arch.path_aliases[i]))
        => (pc \in {"imported", "failed"} /\ app = NoApp /\ napps = 0)
    /\ \A j \in DOMAIN app.path :
          Range(app.path[j].path.callbacks) \subseteq Callbacks

\* The first alias resolves, the second names a missing callback after a
\* real one: the construction has failed.
C11_Witness ==
    /\ pc = "failed"
    /\ Len(arch.path_aliases) = 2
    /\ ~NamesMissingCallback(arch.path_aliases[1])
    /\ arch.path_aliases[2].callback_names = <<"a", MissingName>>

(***************************************************************************)
(* C12: once the Application is built, every declared alias whose names    *)
(* all resolve is in the path table under its name with exactly its        *)
(* callback names, in order, and the table has one entry per declared      *)
(* alias.                                                                  *)
(***************************************************************************)
C12_AliasRoundTrip ==
    napps > 0 =>
        /\ \A i \in DOMAIN arch.path_aliases :
              \E j \in DOMAIN app.path :
                  /\ app.path[j].path_name = arch.path_aliases[i].path_name
                  /\ app.path[j].path.callbacks =
                        arch.path_aliases[i].callback_names
        /\ Len(app.path) = Len(arch.path_aliases)

(***************************************************************************)
(* C17: no step of building an Application over the Architecture and no    *)
(* step of a search_paths call changes the Architecture: its nodes with    *)
(* their callbacks and path collections, its communications and its        *)
(* variable passings stay as they are.                                     *)
(***************************************************************************)
C17_Step ==
    /\ arch'.nodes = arch.nodes
    /\ arch'.communications = arch.communications
    /\ variable_passings(arch') = variable_passings(arch)

C17_GraphNeverMutated == [][C17_Step]_vars

\* The part that holds: a search_paths call from outside changes nothing.
C17_CallerStep == call.by = "caller" => C17_Step

C17_CallerSearchLeavesGraph == [][C17_CallerStep]_vars

(***************************************************************************)
(* C18: when the trace holds the whole chain of the scenario (published at *)
(* 100, callback started at 140 and ended at 145), compose gives exactly   *)
(* one sample, of elapsed time 45; when the publish instance's chain does  *)
(* not resolve, compose gives no sample, and ends all the same.            *)
(***************************************************************************)
ChainComplete(tr) ==
    \A k \in 2..Len(ScenarioChain) :
        \E p \in DOMAIN tr : tr[p] = ScenarioChain[k]

C18_ScenarioSample ==
    pc = "composed" =>
        IF ChainComplete(trace)
        THEN /\ Len(samples) = 1
             /\ samples[1].elapsed = 45
             /\ samples[1].start = 100
             /\ samples[1].end = 145
        ELSE samples = <<>>

\* The whole chain was fed and compose gave its one sample.
C18_Witness ==
    /\ pc = "composed"
    /\ ChainComplete(trace)
    /\ Len(samples) = 1

\* The publish instance and the callback's instance are there, the
\* dispatch went to another callback-object: compose ended with no sample.
C18_WitnessNoChain ==
    /\ pc = "composed"
    /\ Len(data.rclcpp_publish_instances) = 1
    /\ Len(data.dispatch_instances) = 1
    /\ data.dispatch_instances[1].callback_object # 1
    /\ EndOf(data, 1) # Open
    /\ samples = <<>>

(***************************************************************************)
(* What the imported file itself says                                      *)
(***************************************************************************)
\* The topic is ignore-listed in the call that imported the file: by the
\* list the caller gave, or by default "/rosout" and "/parameter_events".
Ignored(t) ==
    IF imp.given THEN t \in Range(imp.ignore_topics)
    ELSE t \in {"/rosout", "/parameter_events"}

TopicJoins(file, p, s, t) ==
    file.publishes[p] = t /\ file.subscribes[s] = t

CommunicationsAsDeclared(a, file) ==
    /\ \A p \in Range(PublisherCallbacks), s \in Range(SubscriptionCallbacks),
          t \in ArchTopics :
          ([callback_from |-> p, callback_to |-> s, topic_name |-> t]
                \in Range(a.communications))
            <=> (TopicJoins(file, p, s, t) /\ ~Ignored(t))
    /\ \A k \in DOMAIN a.communications :
          /\ a.communications[k].callback_from \in Range(PublisherCallbacks)
          /\ a.communications[k].callback_to \in Range(SubscriptionCallbacks)
          /\ a.communications[k].topic_name \in ArchTopics
    /\ Cardinality(Range(a.communications)) = Len(a.communications)

(***************************************************************************)
(* C13: after an import, there is a Communication from a publishing        *)
(* callback to a subscribing callback on a topic exactly when both use     *)
(* that topic and the topic is not ignore-listed; with the default list no *)
(* Communication is on "/rosout" or "/parameter_events".                   *)
(***************************************************************************)
C13_CommunicationIffTopic ==
    imp.file.readable =>
        /\ CommunicationsAsDeclared(arch, imp.file)
        /\ ~imp.given =>
              \A k \in DOMAIN arch.communications :
                  arch.communications[k].topic_name
                      \notin {"/rosout", "/parameter_events"}

\* Imported with the default list: a publishes and b subscribes on
\* "/rosout", and there is no Communication.
C13_Witness ==
    /\ imp.file.readable
    /\ ~imp.given
    /\ TopicJoins(imp.file, "a", "b", "/rosout")
    /\ arch.communications = <<>>

(***************************************************************************)
(* C20: a call of import_file with a file type other than ctf, lttng, yml, *)
(* yaml, or whose importer fails, fails and leaves nodes, path aliases and *)
(* communications as they were; any other call replaces all three by what  *)
(* the file holds.                                                         *)
(***************************************************************************)
C20_Step ==
    imp'.count = imp.count + 1 =>
        IF imp'.file_type \in {"ctf", "lttng", "yml", "yaml"} /\ imp'.readable
        THEN /\ imp'.outcome = "imported"
             /\ arch'.path_aliases = imp'.file.path_aliases
             /\ arch'.nodes[1].variable_passings =
                    Pick(VariablePassingCandidates(1),
                         imp'.file.variable_passings[1])
             /\ Range(arch'.communications) \subseteq
                    {[callback_from |-> p, callback_to |-> s,
                      topic_name |-> imp'.file.publishes[p]] :
                        p \in Range(PublisherCallbacks),
                        s \in Range(SubscriptionCallbacks)}
        ELSE /\ imp'.outcome # "imported"
             /\ arch' = arch

C20_ImportAllOrNothing == [][C20_Step]_vars

\* A first import gave a path alias, a variable passing and a
\* Communication; a second call failed in the importer and they are there.
C20_Witness ==
    /\ imp.count = 2
    /\ imp.outcome = "ImporterError"
    /\ arch.path_aliases # <<>>
    /\ arch.nodes[1].variable_passings # <<>>
    /\ arch.communications # <<>>

\* The variable passings the file declares, node after node.
DeclaredVariablePassings(file) ==
    Pick(VariablePassingCandidates(1), file.variable_passings[1])
        \o Pick(VariablePassingCandidates(2), file.variable_passings[2])
        \o Pick(VariablePassingCandidates(3), file.variable_passings[3])

(***************************************************************************)
(* C21: at any time variable_passings of an Architecture is the            *)
(* concatenation, in node order, of the variable passings of its current   *)
(* nodes: empty before the first successful import, afterwards what the    *)
(* file of the last successful import declares node by node, whatever list *)
(* the importer reported beside the nodes and whatever earlier imports     *)
(* left.                                                                   *)
(***************************************************************************)
C21_VariablePassingsOfNodes ==
    /\ variable_passings(arch) =
            IF arch.nodes = <<>> THEN <<>>
            ELSE arch.nodes[1].variable_passings
                    \o arch.nodes[2].variable_passings
                    \o arch.nodes[3].variable_passings
    /\ variable_passings(arch) =
            IF imp.file.readable THEN DeclaredVariablePassings(imp.file)
            ELSE <<>>

\* An import declared a to b in N1 and c to c in N2 while its importer
\* reported b to a; a second call failed. variable_passings gives the two
\* declared ones in node order, the attribute holds the reported one.
C21_Witness ==
    /\ imp.count = 2
    /\ imp.outcome # "imported"
    /\ arch._variable_passings.set
    /\ arch._variable_passings.value =
            <<[callback_from |-> "b", callback_to |-> "a"]>>
    /\ variable_passings(arch) =
            <<[callback_from |-> "a", callback_to |-> "b"],
              [callback_from |-> "c", callback_to |-> "c"]>>

RECURSIVE Copies(_, _)
Copies(s, k) == IF k = 0 THEN <<>> ELSE s \o Copies(s, k - 1)

\* The first of k equal parts of s.
OneCopy(s, k) == SubSeq(s, 1, Len(s) \div k)

\* No step shortens or rewrites a node's path collection.
C22_Step ==
    \A n \in DOMAIN arch.nodes :
        IsPrefix(arch.nodes[n].paths, arch'.nodes[n].paths)

\* After k constructions a node's collection is k times the same list: the
\* simple paths between the node's own callbacks, each once.
C22_Copies ==
    (pc = "ready" /\ napps >= 1) =>
        \A n \in DOMAIN arch.nodes :
            /\ arch.nodes[n].paths =
                  Copies(OneCopy(arch.nodes[n].paths, napps), napps)
            /\ Len(arch.nodes[n].paths) =
                  napps * Cardinality(IntraNodePaths(arch, arch.nodes[n]))
            /\ {OneCopy(arch.nodes[n].paths, napps)[i].callbacks :
                    i \in DOMAIN OneCopy(arch.nodes[n].paths, napps)} =
                  IntraNodePaths(arch, arch.nodes[n])

\* The path table of the Application built last, however many were built
\* before: one entry for every alias name, holding the callbacks of the
\* last alias declared under that name.
C22_Table ==
    napps >= 1 =>
        /\ {app.path[j].path_name : j \in DOMAIN app.path} =
              {arch.path_aliases[i].path_name : i \in DOMAIN arch.path_aliases}
        /\ \A j, k \in DOMAIN app.path :
              app.path[j].path_name = app.path[k].path_name => j = k
        /\ \A j \in DOMAIN app.path :
              \E i \in DOMAIN arch.path_aliases :
                  /\ arch.path_aliases[i].path_name = app.path[j].path_name
                  /\ arch.path_aliases[i].callback_names =
                        app.path[j].path.callbacks
                  /\ \A h \in DOMAIN arch.path_aliases :
                        arch.path_aliases[h].path_name = app.path[j].path_name
                            => h <= i

(***************************************************************************)
(* C22: building an Application only appends to each node's path           *)
(* collection: what the collection held stays, in order, so after k        *)
(* Applications built over one Architecture every node holds k copies of   *)
(* the paths found between its own callbacks, while the alias path table   *)
(* of each Application is made anew from the declared aliases.             *)
(***************************************************************************)
C22_AppendOnlyNodePaths ==
    /\ [][C22_Step]_vars
    /\ [](C22_Copies /\ C22_Table)

\* Two Applications built over a graph with the edge a to b and a declared
\* alias: N1 holds [a], [a, b], [b] twice over, N2 holds [c] twice, the
\* table has its one entry per alias name.
C22_Witness ==
    /\ pc = "ready" /\ napps = 2
    /\ [i \in DOMAIN arch.nodes[1].paths |->
            arch.nodes[1].paths[i].callbacks] =
          <<<<"a">>, <<"a", "b">>, <<"b">>, <<"a">>, <<"a", "b">>, <<"b">>>>
    /\ Len(arch.nodes[2].paths) = 2
    /\ arch.path_aliases # <<>>
    /\ Len(app.path) = 1

InitAlias ==
    /\ pc = "imported"
    /\ ProcIdle
    /\ arch \in AliasArchitectures
    /\ app = NoApp
    /\ napps = 0
    /\ loop = 0
    /\ call = NoCall
    /\ search = NoSearch
    /\ returned = NoReturn

NextAlias ==
    \/ ApplicationInit
    \/ SetNodePathsNext
    \/ SearcherStep
    \/ SearchReturn

SpecAlias == InitAlias /\ [][NextAlias]_vars

InitProcessor ==
    /\ pc = "processing"
    /\ trace = <<>>
    /\ data = EmptyData
    /\ callback_instances_buf = <<>>
    /\ graph = [kept |-> {}, reported |-> {}]
    /\ AppIdle

NextCallback == CallbackStart \/ CallbackEnd

SpecCallback == InitProcessor /\ [][NextCallback]_vars

NextRegister ==
    \/ RclcppSubscriptionCallbackAdded
    \/ RclcppTimerCallbackAdded
    \/ RclcppCallbackRegister
    \/ Unregistered

SpecRegister == InitProcessor /\ [][NextRegister]_vars

\* Short inputs over the entity and the instance events together.
NextEntity ==
    \/ Len(trace) < MaxEntityEvents /\ RclInit
    \/ Len(trace) < MaxEntityEvents /\ RclNodeInit
    \/ Len(trace) < MaxEntityEvents /\ RclPublisherInit
    \/ Len(trace) < MaxEntityEvents /\ RclcppSubscriptionCallbackAdded
    \/ Len(trace) < MaxEntityEvents /\ RclcppCallbackRegister
    \/ Len(trace) < MaxEntityEvents /\ CallbackStart
    \/ Len(trace) < MaxEntityEvents /\ CallbackEnd

SpecEntity == InitProcessor /\ [][NextEntity]_vars

NextLatency ==
    \/ ScenarioEvent
    \/ EndOfInput
    \/ Compose

SpecLatency == InitProcessor /\ [][NextLatency]_vars

NextInit ==
    \/ RclInit
    \/ RclNodeInit
    \/ RclPublisherInit
    \/ RclLifecycleStateMachineInit
    \/ EndOfInput
    \/ Build

SpecInit == InitProcessor /\ [][NextInit]_vars

NextApp ==
    \/ ApplicationInit
    \/ SetNodePathsNext
    \/ SearchCall
    \/ SearcherStep
    \/ SearchReturn

SpecApp == InitApp /\ [][NextApp]_vars

\* A running __init__ or search_paths call runs on: the loops of
\* _set_node_paths advance, the searcher takes its next step, search_paths
\* returns. Nothing obliges anyone to build an Application or to call.
SpecAppLive ==
    /\ InitApp
    /\ [][NextApp]_vars
    /\ WF_vars(SetNodePathsNext \/ SearcherStep \/ SearchReturn)


=============================================================================
